---- MODULE Spec2Model ----
(***************************************************************************)
(* Pick-path routing engine of victorac/picking-routes                     *)
(* (src/backend/utils.py, src/backend/server.py).                          *)
(*                                                                         *)
(* Positions are pairs <<row, col>> with 0-based rows and columns, as in   *)
(* the Python lists [row, col].  A grid is a function                      *)
(* [0..rows-1 -> [0..cols-1 -> {0,1}]] (0 = walkable, 1 = blocked).        *)
(* Python lists are sequences; Python indices stored in them stay 0-based, *)
(* so the element at Python index i of a list s is s[i + 1].               *)
(***************************************************************************)
EXTENDS Integers, Sequences, FiniteSets, TLC

VARIABLES
    layout,           \* utils.layout
    shelves,          \* utils.shelves
    request,          \* the request being served, Idle between requests
    response,         \* what the handler (or the called function) returned
    locations,        \* the handler's list `locations`, handed to solve_tsp
    ordered_indices,  \* the handler's list `ordered_indices`
    search            \* a call of a_star_pathfinding run statement by statement

vars == <<layout, shelves, request, response, locations, ordered_indices, search>>

---------------------------------------------------------------------------
(* Bounds of the model.                                                    *)

\* rows and columns of the grids the pure-function specification draws
GridRows == 2
GridCols == 3
\* largest number of blocked cells in such a grid
MaxBlocked == 2
\* longest location list handed to create_distance_matrix / solve_tsp
MaxLocs == 2
\* longest pick list of a routing request
MaxPick == 2

---------------------------------------------------------------------------
(* utils.py: the warehouse configuration (lines 6-71).                     *)

\* utils.py:6, range(10) / range(20)
WarehouseRows == 10
WarehouseCols == 20

\* utils.py:8
starting_point == <<9, 10>>

\* utils.py:6-25: walls on rows 1,3,5,7 (columns 2..17), on columns 0 and
\* 19, and the two openings (7,10) and (3,10)
WarehouseLayout ==
    [r \in 0..(WarehouseRows - 1) |->
        [c \in 0..(WarehouseCols - 1) |->
            IF <<r, c>> \in {<<7, 10>>, <<3, 10>>} THEN 0
            ELSE IF c = 0 \/ c = 19 THEN 1
            ELSE IF r \in {1, 3, 5, 7} /\ c \in 2..17 THEN 1
            ELSE 0]]

\* utils.py:29-71
WarehouseShelves ==
    [sku \in {"start"} |-> starting_point]
    @@ [sku \in {"A1"} |-> <<0, 1>>] @@ [sku \in {"A2"} |-> <<1, 1>>]
    @@ [sku \in {"A3"} |-> <<2, 1>>] @@ [sku \in {"A4"} |-> <<3, 1>>]
    @@ [sku \in {"A5"} |-> <<4, 1>>] @@ [sku \in {"A6"} |-> <<5, 1>>]
    @@ [sku \in {"A7"} |-> <<6, 1>>] @@ [sku \in {"A8"} |-> <<7, 1>>]
    @@ [sku \in {"A9"} |-> <<8, 1>>] @@ [sku \in {"A10"} |-> <<9, 1>>]
    @@ [sku \in {"B1"} |-> <<0, 3>>] @@ [sku \in {"B2"} |-> <<0, 4>>]
    @@ [sku \in {"B3"} |-> <<0, 5>>] @@ [sku \in {"B4"} |-> <<0, 6>>]
    @@ [sku \in {"B5"} |-> <<0, 7>>] @@ [sku \in {"B6"} |-> <<0, 8>>]
    @@ [sku \in {"B7"} |-> <<0, 9>>] @@ [sku \in {"B8"} |-> <<0, 10>>]
    @@ [sku \in {"B9"} |-> <<0, 11>>] @@ [sku \in {"B10"} |-> <<0, 12>>]
    @@ [sku \in {"C1"} |-> <<4, 11>>] @@ [sku \in {"C2"} |-> <<4, 12>>]
    @@ [sku \in {"C3"} |-> <<4, 13>>] @@ [sku \in {"C4"} |-> <<4, 14>>]
    @@ [sku \in {"C5"} |-> <<4, 15>>] @@ [sku \in {"C6"} |-> <<4, 16>>]
    @@ [sku \in {"D1"} |-> <<8, 3>>] @@ [sku \in {"D2"} |-> <<8, 4>>]
    @@ [sku \in {"D3"} |-> <<8, 5>>] @@ [sku \in {"D4"} |-> <<8, 6>>]
    @@ [sku \in {"E1"} |-> <<0, 18>>] @@ [sku \in {"E2"} |-> <<1, 18>>]
    @@ [sku \in {"E3"} |-> <<2, 18>>] @@ [sku \in {"E4"} |-> <<3, 18>>]
    @@ [sku \in {"E5"} |-> <<4, 18>>] @@ [sku \in {"E6"} |-> <<5, 18>>]
    @@ [sku \in {"E7"} |-> <<6, 18>>] @@ [sku \in {"E8"} |-> <<7, 18>>]
    @@ [sku \in {"E9"} |-> <<8, 18>>] @@ [sku \in {"E10"} |-> <<9, 18>>]

---------------------------------------------------------------------------
(* utils.py: a_star_pathfinding (lines 74-156).                            *)

\* len(layout), len(layout[0])  (utils.py:86)
Rows(lay) == Cardinality(DOMAIN lay)
Cols(lay) == Cardinality(DOMAIN lay[0])

Abs(x) == IF x < 0 THEN -x ELSE x

\* utils.py:110-111
heuristic(a, b) == Abs(a[1] - b[1]) + Abs(a[2] - b[2])

\* utils.py:96-107: the early-return condition
InvalidEndpoints(start, goal, lay) ==
    \/ start[1] < 0
    \/ start[1] >= Rows(lay)
    \/ start[2] < 0
    \/ start[2] >= Cols(lay)
    \/ goal[1] < 0
    \/ goal[1] >= Rows(lay)
    \/ goal[2] < 0
    \/ goal[2] >= Cols(lay)
    \/ lay[start[1]][start[2]] = 1
    \/ lay[goal[1]][goal[2]] = 1

\* the move to the row above left out
MovesWithoutUp == << <<1, 0>>, <<0, -1>>, <<0, 1>> >>

\* utils.py:117: the order in which the four moves are tried
Moves == << <<-1, 0>>, <<1, 0>>, <<0, -1>>, <<0, 1>> >>

\* utils.py:113-125
RECURSIVE NeighborsFrom(_, _, _)
NeighborsFrom(pos, lay, k) ==
    IF k > Len(Moves) THEN <<>>
    ELSE LET new_row == pos[1] + Moves[k][1]
             new_col == pos[2] + Moves[k][2]
             rest == NeighborsFrom(pos, lay, k + 1)
         IN  IF /\ 0 <= new_row /\ new_row < Rows(lay)
                /\ 0 <= new_col /\ new_col < Cols(lay)
                /\ lay[new_row][new_col] = 0
             THEN <<<<new_row, new_col>>>> \o rest
             ELSE rest

get_neighbors(pos, lay) == NeighborsFrom(pos, lay, 1)

\* the order reversed: the entry with the greatest f comes out first
EntryGreater(a, b) ==
    \/ a[1] > b[1]
    \/ a[1] = b[1] /\ a[2][1] > b[2][1]
    \/ a[1] = b[1] /\ a[2][1] = b[2][1] /\ a[2][2] > b[2][2]

\* Python's tuple order on heap entries (f, (row, col))
EntryLess(a, b) ==
    \/ a[1] < b[1]
    \/ a[1] = b[1] /\ a[2][1] < b[2][1]
    \/ a[1] = b[1] /\ a[2][1] = b[2][1] /\ a[2][2] < b[2][2]

\* index of the least entry of open[lo..hi] (the leftmost one when equal
\* entries occur), found by halving the range
RECURSIVE MinIndexIn(_, _, _)
MinIndexIn(open, lo, hi) ==
    IF lo = hi THEN lo
    ELSE LET mid == (lo + hi) \div 2
             left == MinIndexIn(open, lo, mid)
             right == MinIndexIn(open, mid + 1, hi)
         IN  IF EntryLess(open[right], open[left]) THEN right ELSE left

MinIndex(open) == MinIndexIn(open, 1, Len(open))

RemoveAt(s, i) == SubSeq(s, 1, i - 1) \o SubSeq(s, i + 1, Len(s))

\* utils.py:136: heapq.heappop returns the least entry and removes it
HeapPop(open) ==
    LET i == MinIndex(open)
    IN  [entry |-> open[i], rest |-> RemoveAt(open, i)]

\* utils.py:154: heapq.heappush
HeapPush(open, entry) == Append(open, entry)

\* the test passed also by a g-score equal to the recorded one
ImprovesOrTies(g_score, neighbor, tentative) ==
    neighbor \notin DOMAIN g_score \/ tentative <= g_score[neighbor]

\* utils.py:150: the test that lets a neighbour be (re)recorded
Improves(g_score, neighbor, tentative) ==
    neighbor \notin DOMAIN g_score \/ tentative < g_score[neighbor]

\* utils.py:147-154: the loop over the neighbours of `current`
RECURSIVE Relax(_, _, _, _, _)
Relax(st, current, nbrs, k, goal) ==
    IF k > Len(nbrs) THEN st
    ELSE LET neighbor == nbrs[k]
             tentative_g_score == st.g_score[current] + 1
         IN  IF Improves(st.g_score, neighbor, tentative_g_score)
             THEN Relax(
                    [st EXCEPT
                       !.open_set = HeapPush(st.open_set,
                                      <<tentative_g_score + heuristic(neighbor, goal), neighbor>>),
                       !.came_from = (neighbor :> current) @@ st.came_from,
                       !.g_score = (neighbor :> tentative_g_score) @@ st.g_score],
                    current, nbrs, k + 1, goal)
             ELSE Relax(st, current, nbrs, k + 1, goal)

\* utils.py:141-143: one iteration of the loop that follows came_from
ReconstructStep(st, came_from) ==
    IF st.current \in DOMAIN came_from
    THEN [st EXCEPT !.path = Append(st.path, st.current),
                    !.current = came_from[st.current]]
    ELSE [st EXCEPT !.done = TRUE]

\* that loop run for at most n iterations, split in halves as AStarRun below
RECURSIVE ReconstructRun(_, _, _)
ReconstructRun(st, came_from, n) ==
    IF st.done \/ n = 0 THEN st
    ELSE IF n = 1 THEN ReconstructStep(st, came_from)
    ELSE ReconstructRun(ReconstructRun(st, came_from, n \div 2),
                        came_from, n - (n \div 2))

\* the list left in the order the loop built it, goal first
Unreversed(s) == s

\* path[::-1]
Reverse(s) == [k \in 1..Len(s) |-> s[Len(s) + 1 - k]]

\* utils.py:140-145: the path from start to `current`.  The loop leaves a
\* chain without a cycle after at most one iteration per entry of came_from.
ReconstructPath(came_from, current, start) ==
    LET walked == ReconstructRun([path |-> <<>>, current |-> current, done |-> FALSE],
                                 came_from, Cardinality(DOMAIN came_from) + 1)
    IN  Reverse(Append(walked.path, start))

\* utils.py:128-131: the state before the first iteration.  `done` and `path`
\* record that the function has returned, and what.
AStarInit(start, goal) ==
    [open_set |-> << <<0, start>> >>,
     came_from |-> <<>>,
     g_score |-> (start :> 0),
     done |-> FALSE,
     path |-> <<>>]

\* utils.py:135-156: one iteration of the while loop (or the return at line
\* 156 when the open set is empty)
AStarStep(st, start, goal, lay) ==
    IF st.open_set = <<>> THEN [st EXCEPT !.done = TRUE, !.path = <<>>]
    ELSE LET popped == HeapPop(st.open_set)
             current == popped.entry[2]
         IN  IF current = goal
             THEN [st EXCEPT !.open_set = popped.rest,
                             !.done = TRUE,
                             !.path = ReconstructPath(st.came_from, current, start)]
             ELSE Relax([st EXCEPT !.open_set = popped.rest], current,
                        get_neighbors(current, lay), 1, goal)

\* The while loop run for at most n iterations, split in halves so that the
\* evaluation depth stays logarithmic in n.
RECURSIVE AStarRun(_, _, _, _, _)
AStarRun(st, start, goal, lay, n) ==
    IF st.done \/ n = 0 THEN st
    ELSE IF n = 1 THEN AStarStep(st, start, goal, lay)
    ELSE AStarRun(AStarRun(st, start, goal, lay, n \div 2),
                  start, goal, lay, n - (n \div 2))

\* An upper bound on the number of iterations: every push (line 154) either
\* discovers a cell or strictly lowers its g-score, which lies in 1..cells-1.
MaxIterations(lay) == (Rows(lay) * Cols(lay)) * (Rows(lay) * Cols(lay))

\* utils.py:74-156
a_star_pathfinding(start, goal, lay) ==
    IF start = goal THEN <<start>>
    ELSE IF InvalidEndpoints(start, goal, lay) THEN <<>>
    ELSE AStarRun(AStarInit(start, goal), start, goal, lay, MaxIterations(lay)).path

---------------------------------------------------------------------------
(* utils.py: the distance matrix and the tour solver (lines 159-212).      *)

\* utils.py:168: float("inf"), the cost of a pair with no path.  The model
\* keeps it apart from every step count, which is >= 0.
INF == -1

\* utils.py:164-169
path_distance(start, goal, lay) ==
    LET path == a_star_pathfinding(start, goal, lay)
    IN  IF path = <<>> THEN INF ELSE Len(path) - 1

\* utils.py:159-171: the matrix as a list of rows
create_distance_matrix_with_pathfinding(locs, lay) ==
    [i \in 1..Len(locs) |-> [j \in 1..Len(locs) |-> path_distance(locs[i], locs[j], lay)]]

\* utils.py:174-176
create_distance_matrix(locs, lay) == create_distance_matrix_with_pathfinding(locs, lay)

\* utils.py:191-192: int(dist_matrix[i][j] * 100) for nodes i, j (0-based).
\* float("inf") * 100 is float("inf"), and int() of it raises OverflowError.
distance_callback(dist_matrix, i, j) ==
    IF dist_matrix[i + 1][j + 1] = INF
    THEN [raised |-> TRUE, value |-> 0]
    ELSE [raised |-> FALSE, value |-> dist_matrix[i + 1][j + 1] * 100]

\* all orderings of a finite set, as sequences
RECURSIVE Orderings(_)
Orderings(S) ==
    IF S = {} THEN {<<>>}
    ELSE UNION {{<<x>> \o rest : rest \in Orderings(S \ {x})} : x \in S}

\* utils.py:188-201: the routes RoutingModel.SolveWithParameters can return
\* for n nodes, one vehicle and depot 0: the vehicle leaves node 0 and visits
\* every other node once before it reaches the end of the route.  The heuristic
\* (PATH_CHEAPEST_ARC and the local search after it) picks one of them; which
\* one is left open.
RoutingSolutions(n) == {<<0>> \o rest : rest \in Orderings(1..(n - 1))}

\* utils.py:206-211: the nodes from routing.Start(0) up to the end of the
\* route, then the node of the end index, which is the depot again
RoutePath(solution) == Append(solution, 0)

\* utils.py:186-212: the possible outcomes of solve_tsp(locations): the call
\* raises when the solver evaluates the cost of an arc without a path, returns
\* [] when the solver has no solution, and otherwise returns the route.
solve_tsp(locs, lay) ==
    LET dist_matrix == create_distance_matrix(locs, lay)
        n == Len(dist_matrix)
    IN  IF \E i \in 0..(n - 1), j \in 0..(n - 1) : distance_callback(dist_matrix, i, j).raised
        THEN {[raised |-> TRUE, path |-> <<>>]}
        ELSE IF RoutingSolutions(n) = {}
        THEN {[raised |-> FALSE, path |-> <<>>]}
        ELSE {[raised |-> FALSE, path |-> RoutePath(sol)] : sol \in RoutingSolutions(n)}

---------------------------------------------------------------------------
(* server.py: the request handlers.                                        *)

Idle == [op |-> "none"]
\* no call of a_star_pathfinding is being followed
NoSearch == [pc |-> "idle"]
NoLocations == <<>>
NoIndices == <<>>

\* the comprehension stopped at the first identifier the registry lacks
RECURSIVE ResolveUntilUnknown(_, _, _)
ResolveUntilUnknown(pick_list, reg, k) ==
    IF k > Len(pick_list) \/ pick_list[k] \notin DOMAIN reg THEN <<>>
    ELSE <<reg[pick_list[k]]>> \o ResolveUntilUnknown(pick_list, reg, k + 1)

\* [shelves[sku] for sku in pick_list if sku in shelves]
\* (server.py:18, 53, 105)
RECURSIVE ResolveFrom(_, _, _)
ResolveFrom(pick_list, reg, k) ==
    IF k > Len(pick_list) THEN <<>>
    ELSE IF pick_list[k] \in DOMAIN reg
    THEN <<reg[pick_list[k]]>> \o ResolveFrom(pick_list, reg, k + 1)
    ELSE ResolveFrom(pick_list, reg, k + 1)

Resolve(pick_list, reg) == ResolveFrom(pick_list, reg, 1)

\* [locations[i] for i in ordered_indices]  (server.py:23, 59, 111)
OrderedLocations(locs, indices) == [k \in 1..Len(indices) |-> locs[indices[k] + 1]]

\* a handler that lets the exception of solve_tsp escape answers 500
ServerError == [status |-> 500]

\* server.py:20, 55, 107
NoValidSkus == [status |-> 400, error |-> "No valid SKUs found"]

\* server.py:13-25
ApiSolve(pick_list) ==
    /\ request = Idle
    /\ request' = [op |-> "solve", pick_list |-> pick_list]
    /\ LET locs == <<starting_point>> \o Resolve(pick_list, shelves)
       IN  IF locs = <<>>
           THEN /\ response' = NoValidSkus
                /\ locations' = locs
                /\ ordered_indices' = NoIndices
           ELSE \E out \in solve_tsp(locs, layout) :
                  /\ locations' = locs
                  /\ ordered_indices' = out.path
                  /\ response' = IF out.raised THEN ServerError
                                 ELSE [status |-> 200,
                                       path |-> OrderedLocations(locs, out.path)]
    /\ UNCHANGED <<layout, shelves, search>>

\* server.py:28-43
GetPath(start, goal) ==
    /\ request = Idle
    /\ request' = [op |-> "get_path", start |-> start, goal |-> goal]
    /\ LET path == a_star_pathfinding(start, goal, layout)
       IN  response' = [status |-> 200,
                        path |-> path,
                        distance |-> IF path # <<>> THEN Len(path) - 1 ELSE -1,
                        found |-> Len(path) > 0]
    /\ UNCHANGED <<layout, shelves, locations, ordered_indices, search>>

\* the loop with the total counting the cells of each path, not its steps
RECURSIVE WalkCountingCells(_, _, _, _)
WalkCountingCells(ordered_locations, lay, i, acc) ==
    IF i >= Len(ordered_locations) - 1 THEN acc
    ELSE LET start == ordered_locations[i + 1]
             goal == ordered_locations[i + 2]
             path == a_star_pathfinding(start, goal, lay)
             segment == [from |-> start,
                         to |-> goal,
                         path |-> path,
                         distance |-> IF path # <<>> THEN Len(path) - 1 ELSE 0]
         IN  WalkCountingCells(ordered_locations, lay, i + 1,
                      [walking_paths |-> Append(acc.walking_paths, segment),
                       total_distance |-> acc.total_distance + Len(path)])

\* server.py:62-80: the loop over consecutive stops, from Python index i on;
\* acc holds walking_paths and total_distance
RECURSIVE WalkFrom(_, _, _, _)
WalkFrom(ordered_locations, lay, i, acc) ==
    IF i >= Len(ordered_locations) - 1 THEN acc
    ELSE LET start == ordered_locations[i + 1]
             goal == ordered_locations[i + 2]
             path == a_star_pathfinding(start, goal, lay)
             segment == [from |-> start,
                         to |-> goal,
                         path |-> path,
                         distance |-> IF path # <<>> THEN Len(path) - 1 ELSE 0]
         IN  WalkFrom(ordered_locations, lay, i + 1,
                      [walking_paths |-> Append(acc.walking_paths, segment),
                       total_distance |-> IF path # <<>>
                                          THEN acc.total_distance + (Len(path) - 1)
                                          ELSE acc.total_distance])

Walk(ordered_locations, lay) ==
    WalkFrom(ordered_locations, lay, 0, [walking_paths |-> <<>>, total_distance |-> 0])

\* server.py:87-90
PickListWithLocations(pick_list, indices, ordered_locations) ==
    [k \in 1..Len(ordered_locations) |->
        [sku |-> pick_list[indices[k] + 1], location |-> ordered_locations[k]]]

\* server.py:46-92
ApiSolveWithPaths(pick_list_in) ==
    /\ request = Idle
    /\ request' = [op |-> "solve_with_paths", pick_list |-> pick_list_in]
    /\ LET pick_list == <<"sp">> \o pick_list_in
           locs == Resolve(pick_list, shelves)
       IN  IF locs = <<>>
           THEN /\ response' = NoValidSkus
                /\ locations' = locs
                /\ ordered_indices' = NoIndices
           ELSE \E out \in solve_tsp(locs, layout) :
                  /\ locations' = locs
                  /\ ordered_indices' = out.path
                  /\ response' =
                       IF out.raised THEN ServerError
                       ELSE LET ordered_locations == OrderedLocations(locs, out.path)
                                walked == Walk(ordered_locations, layout)
                            IN  [status |-> 200,
                                 optimal_order |-> ordered_locations,
                                 walking_paths |-> walked.walking_paths,
                                 total_distance |-> walked.total_distance,
                                 pick_list_with_locations |->
                                     PickListWithLocations(pick_list, out.path,
                                                           ordered_locations)]
    /\ UNCHANGED <<layout, shelves, search>>

\* server.py:117-119: every walkable cell that holds a shelf is tagged 2 (the
\* writes of the loop do not depend on one another)
MarkShelves(grid, reg) ==
    [r \in DOMAIN grid |->
        [c \in DOMAIN grid[r] |->
            IF grid[r][c] = 0 /\ (\E sku \in DOMAIN reg : reg[sku] = <<r, c>>)
            THEN 2 ELSE grid[r][c]]]

\* server.py:123-124: the stop with Python index i is tagged 3 + i; a later
\* stop on the same cell overwrites the tag of an earlier one
RECURSIVE MarkStops(_, _, _)
MarkStops(grid, ordered_locations, i) ==
    IF i >= Len(ordered_locations) THEN grid
    ELSE LET location == ordered_locations[i + 1]
         IN  MarkStops([grid EXCEPT ![location[1]][location[2]] = 3 + i],
                       ordered_locations, i + 1)

\* server.py:126-128
RoutePoints(pick_list, indices, ordered_locations) ==
    [k \in 1..Len(ordered_locations) |->
        [position |-> ordered_locations[k],
         order |-> k - 1,
         sku |-> pick_list[indices[k] + 1]]]

\* server.py:133-139: the paths of the consecutive pairs of stops, one after
\* the other in a single list
RECURSIVE AllPathFrom(_, _, _)
AllPathFrom(ordered_locations, lay, i) ==
    IF i >= Len(ordered_locations) - 1 THEN <<>>
    ELSE a_star_pathfinding(ordered_locations[i + 1], ordered_locations[i + 2], lay)
           \o AllPathFrom(ordered_locations, lay, i + 1)

\* server.py:146-152
Direction(point, next_point) ==
    IF next_point[1] - point[1] < 0 THEN "up"
    ELSE IF next_point[2] - point[2] < 0 THEN "left"
    ELSE IF next_point[2] - point[2] > 0 THEN "right"
    ELSE "down"

\* server.py:154: f"{point[0]},{point[1]}"
PointKey(point) == ToString(point[1]) \o "," \o ToString(point[2])

\* server.py:142-154: the defaultdict of direction lists.  The loop visits
\* the Python indices i with i + 1 < len(all_path) in increasing order and
\* appends the direction of the step from all_path[i] to all_path[i + 1] to
\* the list of the key of all_path[i]: the list of a key holds the directions
\* of the indices with that key, in increasing order.
DirectionGrid(all_path) ==
    LET steps == [i \in 1..(Len(all_path) - 1) |-> i]
        keys == {PointKey(all_path[i]) : i \in 1..(Len(all_path) - 1)}
    IN  [key \in keys |->
            LET AtKey(i) == PointKey(all_path[i]) = key
                at == SelectSeq(steps, AtKey)
            IN  [k \in 1..Len(at) |-> Direction(all_path[at[k]], all_path[at[k] + 1])]]

\* server.py:157-159: the walkable cells of the paths are tagged -1
MarkPath(grid, all_path_points) ==
    [r \in DOMAIN grid |->
        [c \in DOMAIN grid[r] |->
            IF <<r, c>> \in all_path_points /\ grid[r][c] = 0 THEN -1 ELSE grid[r][c]]]

\* server.py:166-172
Legend ==
    ("0" :> "walkable") @@ ("1" :> "blocked") @@ ("2" :> "shelf (not picked)")
    @@ ("-1" :> "walking path") @@ ("3+" :> "picked shelf (numbered by visit order)")

\* the list of rows copied and the rows themselves left shared
ShareRows(grid) == [cells |-> grid, shared |-> DOMAIN grid]

\* server.py:114: [row[:] for row in layout], a new list of new rows.  `cells`
\* is the content of the new grid and `shared` the indices of its rows that
\* are the same list objects as the rows of `grid`: the copy shares none.
CopyRows(grid) == [cells |-> grid, shared |-> {}]

\* server.py:119, 124, 159: the writes visual_grid[r][c] = tag go to row
\* objects, so `grid` shows the writes made to the rows it shares with the
\* written grid and keeps its other rows
AfterWrites(grid, written, shared) ==
    [r \in DOMAIN grid |-> IF r \in shared THEN written[r] ELSE grid[r]]

\* server.py:111-174: the handler once the route is known: the response, and
\* `layout` as the writes of lines 119, 124 and 159 leave it
DrawRoute(pick_list, locs, indices, lay, reg) ==
    LET ordered_locations == OrderedLocations(locs, indices)
        visual_grid == CopyRows(lay)
        tagged == MarkStops(MarkShelves(visual_grid.cells, reg), ordered_locations, 0)
        \* `layout` as line 134 reads it
        layout_read == AfterWrites(lay, tagged, visual_grid.shared)
        all_path == AllPathFrom(ordered_locations, layout_read, 0)
        all_path_points == {all_path[k] : k \in 1..Len(all_path)}
        marked == MarkPath(tagged, all_path_points)
    IN  [response |-> [status |-> 200,
                       visual_grid |-> marked,
                       route_points |-> RoutePoints(pick_list, indices, ordered_locations),
                       directions |-> DirectionGrid(all_path),
                       legend |-> Legend],
         layout |-> AfterWrites(lay, marked, visual_grid.shared)]

\* server.py:95-174
VisualizeRoute(pick_list_in) ==
    /\ request = Idle
    /\ request' = [op |-> "visualize_route", pick_list |-> pick_list_in]
    /\ LET pick_list == <<"sp">> \o pick_list_in
           locs == Resolve(pick_list, shelves)
       IN  IF pick_list = <<>>
           THEN /\ response' = [status |-> 400, error |-> "Empty pick list"]
                /\ locations' = NoLocations
                /\ ordered_indices' = NoIndices
                /\ layout' = layout
           ELSE IF locs = <<>>
           THEN /\ response' = NoValidSkus
                /\ locations' = locs
                /\ ordered_indices' = NoIndices
                /\ layout' = layout
           ELSE \E out \in solve_tsp(locs, layout) :
                  /\ locations' = locs
                  /\ ordered_indices' = out.path
                  /\ IF out.raised
                     THEN /\ response' = ServerError
                          /\ layout' = layout
                     ELSE \E drawn \in {DrawRoute(pick_list, locs, out.path, layout, shelves)} :
                            /\ response' = drawn.response
                            /\ layout' = drawn.layout
    /\ UNCHANGED <<shelves, search>>

\* direct calls of the two functions of utils.py, on a location list
CallCreateDistanceMatrix(locs) ==
    /\ request = Idle
    /\ request' = [op |-> "create_distance_matrix", locations |-> locs]
    /\ response' = [matrix |-> create_distance_matrix(locs, layout)]
    /\ UNCHANGED <<layout, shelves, locations, ordered_indices, search>>

CallSolveTsp(locs) ==
    /\ request = Idle
    /\ request' = [op |-> "solve_tsp", locations |-> locs]
    /\ \E out \in solve_tsp(locs, layout) : response' = out
    /\ UNCHANGED <<layout, shelves, locations, ordered_indices, search>>

\* the response has been sent; the request's data are dropped and the server
\* waits for the next request
Reply ==
    /\ request # Idle
    /\ request' = Idle
    /\ response' = Idle
    /\ locations' = NoLocations
    /\ ordered_indices' = NoIndices
    /\ UNCHANGED <<layout, shelves, search>>

---------------------------------------------------------------------------
(* The server on the warehouse configuration.                              *)

\* identifiers a pick list is drawn from: registry entries (the depot's own
\* entry among them), the literal the handlers prepend, and an unknown one
PickIds == {"A1", "C1", "E10", "start", "sp", "X9"}

\* sequences over S of length 0..n
RECURSIVE SeqsUpTo(_, _)
SeqsUpTo(S, n) ==
    IF n = 0 THEN {<<>>}
    ELSE LET shorter == SeqsUpTo(S, n - 1)
         IN  shorter \cup {Append(q, x) : q \in shorter, x \in S}

PickLists == SeqsUpTo(PickIds, MaxPick)

\* positions the direct calls are tried on: shelf positions, a blocked cell
\* and a position outside the grid
ProbePoints ==
    {WarehouseShelves[k] : k \in {"start", "A1", "C1", "E10"}} \cup {<<0, 0>>, <<-1, 3>>}

LocationLists == SeqsUpTo(ProbePoints, MaxLocs) \ {<<>>}

Init ==
    /\ layout = WarehouseLayout
    /\ shelves = WarehouseShelves
    /\ request = Idle
    /\ response = Idle
    /\ locations = NoLocations
    /\ ordered_indices = NoIndices
    /\ search = NoSearch

Next ==
    \/ \E pick_list \in PickLists : ApiSolve(pick_list)
    \/ \E start \in ProbePoints, goal \in ProbePoints : GetPath(start, goal)
    \/ \E pick_list \in PickLists : ApiSolveWithPaths(pick_list)
    \/ \E pick_list \in PickLists : VisualizeRoute(pick_list)
    \/ \E locs \in LocationLists : CallCreateDistanceMatrix(locs)
    \/ \E locs \in LocationLists : CallSolveTsp(locs)
    \/ Reply

Spec == Init /\ [][Next]_vars

---------------------------------------------------------------------------
(* The functions of utils.py with utils.layout set to each grid of a small *)
(* family, and start and goal drawn from its cells and from positions      *)
(* outside it.                                                             *)

GridCells == (0..(GridRows - 1)) \X (0..(GridCols - 1))

GridOf(blocked) ==
    [r \in 0..(GridRows - 1) |->
        [c \in 0..(GridCols - 1) |-> IF <<r, c>> \in blocked THEN 1 ELSE 0]]

SmallGrids == {GridOf(B) : B \in {S \in SUBSET GridCells : Cardinality(S) <= MaxBlocked}}

\* the cells of the grid and one position beyond each of its four edges
GridPoints ==
    GridCells \cup {<<-1, 0>>, <<GridRows, 0>>, <<0, -1>>, <<0, GridCols>>}

\* position a is not after position b, row first
PosLeq(a, b) == a[1] < b[1] \/ (a[1] = b[1] /\ a[2] <= b[2])

InitGrid ==
    /\ layout \in SmallGrids
    /\ shelves = <<>>
    /\ request = Idle
    /\ response = Idle
    /\ locations = NoLocations
    /\ ordered_indices = NoIndices
    /\ search = NoSearch

\* every path query, and the matrix of every pair of positions (one order of
\* the pair is enough: the matrix holds both directions)
NextGrid ==
    \/ \E start \in GridPoints, goal \in GridPoints : GetPath(start, goal)
    \/ \E a \in GridPoints, b \in GridPoints :
          PosLeq(a, b) /\ CallCreateDistanceMatrix(<<a, b>>)
    \/ Reply

SpecGrid == InitGrid /\ [][NextGrid]_vars

---------------------------------------------------------------------------
(* A call of a_star_pathfinding followed statement by statement, with      *)
(* utils.layout set to each grid of the small family: every iteration of   *)
(* the while loop (utils.py:135) and of the loop that follows came_from    *)
(* (utils.py:141) is a step of its own, and no bound is put on the number  *)
(* of steps.                                                               *)

\* the call has returned `path` before it created its open set
Returned(path) ==
    [open_set |-> <<>>, came_from |-> <<>>, g_score |-> <<>>, done |-> TRUE, path |-> path]

\* the loop of lines 141-143 has not been entered
NoWalk == [path |-> <<>>, current |-> <<>>, done |-> FALSE]

\* utils.py:74-131: the call, up to the first test of the while loop
SearchCall(start, goal) ==
    /\ search.pc = "idle"
    /\ search' =
         IF start = goal
         THEN [pc |-> "done", start |-> start, goal |-> goal,
               st |-> Returned(<<start>>), walk |-> NoWalk]
         ELSE IF InvalidEndpoints(start, goal, layout)
         THEN [pc |-> "done", start |-> start, goal |-> goal,
               st |-> Returned(<<>>), walk |-> NoWalk]
         ELSE [pc |-> "loop", start |-> start, goal |-> goal,
               st |-> AStarInit(start, goal), walk |-> NoWalk]
    /\ UNCHANGED <<layout, shelves, request, response, locations, ordered_indices>>

\* utils.py:135-156: one iteration of the while loop.  When the popped cell
\* is the goal the call goes on to line 140 with path = [] and current = goal.
SearchIterate ==
    /\ search.pc = "loop"
    /\ LET st == search.st
       IN  IF st.open_set # <<>> /\ HeapPop(st.open_set).entry[2] = search.goal
           THEN search' = [search EXCEPT
                             !.pc = "reconstruct",
                             !.st.open_set = HeapPop(st.open_set).rest,
                             !.walk = [path |-> <<>>, current |-> search.goal,
                                       done |-> FALSE]]
           ELSE LET next == AStarStep(st, search.start, search.goal, layout)
                IN  search' = [search EXCEPT
                                 !.st = next,
                                 !.pc = IF next.done THEN "done" ELSE "loop"]
    /\ UNCHANGED <<layout, shelves, request, response, locations, ordered_indices>>

\* utils.py:141-145: one test of `current in came_from`, with the body of the
\* loop when it holds and lines 144-145 when it does not
SearchReconstruct ==
    /\ search.pc = "reconstruct"
    /\ LET walked == ReconstructStep(search.walk, search.st.came_from)
       IN  search' =
             IF walked.done
             THEN [search EXCEPT
                     !.pc = "done",
                     !.walk = walked,
                     !.st.done = TRUE,
                     !.st.path = Reverse(Append(walked.path, search.start))]
             ELSE [search EXCEPT !.walk = walked]
    /\ UNCHANGED <<layout, shelves, request, response, locations, ordered_indices>>

\* the caller has the returned path; the locals of the call are gone
SearchReturn ==
    /\ search.pc = "done"
    /\ search' = NoSearch
    /\ UNCHANGED <<layout, shelves, request, response, locations, ordered_indices>>

NextSearch ==
    \/ \E start \in GridPoints, goal \in GridPoints : SearchCall(start, goal)
    \/ SearchIterate
    \/ SearchReconstruct
    \/ SearchReturn

\* A call that has begun keeps executing: the interpreter runs the next
\* iteration of either loop as long as there is one.  For the while loop this
\* is WF_vars(SearchIterate), written with the action's enabling condition
\* search.pc = "loop" in the place of ENABLED <<SearchIterate>>_vars (every
\* iteration pops an entry or returns, so it changes `search`).
SearchFairness ==
    /\ []<>(search.pc # "loop") \/ []<><<SearchIterate>>_vars
    /\ WF_vars(SearchReconstruct)

SpecSearch == InitGrid /\ [][NextSearch]_vars /\ SearchFairness

---------------------------------------------------------------------------
(* Reference notions the properties are stated with.                       *)

InBounds(p, lay) ==
    /\ 0 <= p[1] /\ p[1] < Rows(lay)
    /\ 0 <= p[2] /\ p[2] < Cols(lay)

Walkable(p, lay) == InBounds(p, lay) /\ lay[p[1]][p[2]] = 0

WalkableCells(lay) ==
    {p \in (0..(Rows(lay) - 1)) \X (0..(Cols(lay) - 1)) : lay[p[1]][p[2]] = 0}

Adjacent(p, q) == Abs(p[1] - q[1]) + Abs(p[2] - q[2]) = 1

\* breadth-first search: the cells at distance d are `frontier`, the cells at
\* smaller distance are `seen`; -1 when the goal is never met
RECURSIVE BfsFrom(_, _, _, _, _)
BfsFrom(frontier, seen, d, goal, lay) ==
    IF goal \in frontier THEN d
    ELSE IF frontier = {} THEN -1
    ELSE LET done == seen \cup frontier
             next == {q \in WalkableCells(lay) \ done : \E p \in frontier : Adjacent(p, q)}
         IN  BfsFrom(next, done, d + 1, goal, lay)

\* number of steps of a shortest walk from start to goal through walkable
\* cells, -1 when there is none
ShortestDistance(start, goal, lay) ==
    IF Walkable(start, lay) /\ Walkable(goal, lay)
    THEN BfsFrom({start}, {}, 0, goal, lay)
    ELSE -1

---------------------------------------------------------------------------
(* C1 *)

\* C1: for every grid and every pair of distinct in-bounds walkable cells
\* connected through walkable cells, a_star_pathfinding returns a non-empty
\* path whose number of steps is the breadth-first shortest distance.
C1_ShortestPath ==
    (request.op = "get_path"
       /\ request.start # request.goal
       /\ ShortestDistance(request.start, request.goal, layout) >= 0)
    => /\ response.path # <<>>
       /\ Len(response.path) - 1 = ShortestDistance(request.start, request.goal, layout)

\* a query whose shortest walk has to leave the straight line: it is longer
\* than the Manhattan distance
C1_Witness ==
    /\ request.op = "get_path"
    /\ request.start # request.goal
    /\ ShortestDistance(request.start, request.goal, layout) >
         heuristic(request.start, request.goal)
    /\ Len(response.path) - 1 = ShortestDistance(request.start, request.goal, layout)

---------------------------------------------------------------------------
(* C2 *)

InvalidPoint(p, lay) == ~InBounds(p, lay) \/ lay[p[1]][p[2]] = 1

\* C2: whenever start or goal is out of bounds or on a blocked cell (also
\* when start = goal), the path is empty and the single-path query reports
\* found = false and distance = -1.
C2_InvalidEndpointsGiveNoPath ==
    (request.op = "get_path"
       /\ (InvalidPoint(request.start, layout) \/ InvalidPoint(request.goal, layout)))
    => /\ response.status = 200
       /\ response.path = <<>>
       /\ response.found = FALSE
       /\ response.distance = -1

---------------------------------------------------------------------------
(* C3 *)

\* seq holds every index 0..n-1 exactly once
IsPermutation(seq, n) ==
    /\ Len(seq) = n
    /\ \A v \in 0..(n - 1) : Cardinality({k \in 1..Len(seq) : seq[k] = v}) = 1

\* C3: for every location list of size N >= 1, solve_tsp returns the empty
\* sequence or a permutation of 0..N-1 that begins with 0 (no index twice,
\* length N).
C3_TourIsPermutation ==
    request.op = "solve_tsp"
    => /\ ~response.raised
       /\ \/ response.path = <<>>
          \/ /\ IsPermutation(response.path, Len(request.locations))
             /\ response.path[1] = 0

---------------------------------------------------------------------------
(* C4 *)

\* some pair of distinct locations of the list has no path
HasUnreachablePair(locs, lay) ==
    \E i \in 1..Len(locs), j \in 1..Len(locs) :
        /\ locs[i] # locs[j]
        /\ a_star_pathfinding(locs[i], locs[j], lay) = <<>>

\* C4: when some pair of distinct locations is unreachable, solve_tsp raises
\* no error and still returns a tour or the empty sequence.
C4_UnreachablePairRaisesNothing ==
    (request.op = "solve_tsp" /\ HasUnreachablePair(request.locations, layout))
    => ~response.raised

---------------------------------------------------------------------------
(* C5 *)

RoutingOps == {"solve", "solve_with_paths", "visualize_route"}

\* the registry positions of the identifiers of a pick list that the registry
\* knows, in pick-list order
KnownPositions(pick_list, reg) ==
    LET Known(sku) == sku \in DOMAIN reg
        kept == SelectSeq(pick_list, Known)
    IN  [k \in 1..Len(kept) |-> reg[kept[k]]]

\* C5: in every routing request the location list handed to solve_tsp is the
\* depot position (registry entry "start") followed by the resolved pick-list
\* positions, and the returned route begins at the depot.
C5_DepotFirst ==
    (request.op \in RoutingOps /\ response.status # 400)
    => /\ locations = <<shelves["start"]>> \o KnownPositions(request.pick_list, shelves)
       /\ locations[1] = starting_point
       /\ response.status = 200 =>
            locations[ordered_indices[1] + 1] = starting_point

---------------------------------------------------------------------------
(* C6 *)

\* C6: a routing request whose pick list is empty or holds only identifiers
\* absent from the registry is rejected with status 400 by every routing
\* endpoint.
C6_NothingResolvableRejected ==
    (request.op \in RoutingOps /\ KnownPositions(request.pick_list, shelves) = <<>>)
    => response.status = 400

---------------------------------------------------------------------------
(* C7 *)

\* sum of f over the entries of a sequence
RECURSIVE SumOver(_, _)
SumOver(seq, k) ==
    IF k > Len(seq) THEN 0 ELSE seq[k] + SumOver(seq, k + 1)

\* C7: in the response of /api/solve-with-paths, total_distance is the sum of
\* the distances (path length - 1) of the segments whose path is non-empty;
\* segments with an empty path contribute 0.
C7_TotalIsSumOfFoundSegments ==
    (request.op = "solve_with_paths" /\ response.status = 200)
    => LET segs == response.walking_paths
           contribution == [k \in 1..Len(segs) |->
                              IF segs[k].path # <<>> THEN Len(segs[k].path) - 1 ELSE 0]
       IN  /\ response.total_distance = SumOver(contribution, 1)
           /\ \A k \in 1..Len(segs) : segs[k].distance = contribution[k]

\* a route of at least two segments that each cover some distance
C7_Witness ==
    /\ request.op = "solve_with_paths"
    /\ response.status = 200
    /\ Len(response.walking_paths) >= 2
    /\ \A k \in 1..Len(response.walking_paths) : response.walking_paths[k].distance > 0
    /\ response.total_distance =
         SumOver([k \in 1..Len(response.walking_paths) |->
                    response.walking_paths[k].distance], 1)

---------------------------------------------------------------------------
(* C8 *)

\* C8: one segment record per consecutive pair of stops, also for a pair
\* without a path; a segment with an empty path has distance 0 and carries a
\* found flag that is false exactly when the path is empty; no resolved stop
\* is missing from the ordered locations.
C8_SegmentPerPairWithFoundFlag ==
    (request.op = "solve_with_paths" /\ response.status # 400)
    => /\ response.status = 200
       /\ LET stops == response.optimal_order
              segs == response.walking_paths
          IN  /\ Len(segs) = Len(stops) - 1
              /\ \A k \in 1..Len(segs) :
                    /\ segs[k].from = stops[k]
                    /\ segs[k].to = stops[k + 1]
                    /\ segs[k].path = <<>> => segs[k].distance = 0
                    /\ "found" \in DOMAIN segs[k]
                    /\ segs[k].found = (segs[k].path # <<>>)
              /\ \A i \in 1..Len(locations) : \E k \in 1..Len(stops) : stops[k] = locations[i]

---------------------------------------------------------------------------
(* C9 *)

\* C9: the matrix of create_distance_matrix is symmetric, the unreachable
\* value included, and its diagonal is 0.
C9_MatrixSymmetric ==
    request.op = "create_distance_matrix"
    => LET m == response.matrix
           n == Len(request.locations)
       IN  /\ Len(m) = n
           /\ \A i \in 1..n, j \in 1..n : m[i][j] = m[j][i]
           /\ \A i \in 1..n : m[i][i] = 0

\* a matrix of two distinct cells joined only by a walk longer than their
\* Manhattan distance
C9_Witness ==
    /\ request.op = "create_distance_matrix"
    /\ Len(request.locations) = 2
    /\ request.locations[1] # request.locations[2]
    /\ response.matrix[1][2] > heuristic(request.locations[1], request.locations[2])
    /\ response.matrix[2][1] = response.matrix[1][2]

---------------------------------------------------------------------------
(* C10 *)

RegistryPositions(reg) == {reg[sku] : sku \in DOMAIN reg}

\* the part of `locations` that comes from the pick list: /api/solve puts the
\* depot position in front of it (server.py:18)
ResolvedPart(op, locs) == IF op = "solve" THEN Tail(locs) ELSE locs

\* C10: the positions resolved from a pick list are the registry positions of
\* its identifiers that the registry knows, in pick-list order, one per
\* occurrence; unknown identifiers are dropped without error; every position
\* that reaches the distance-matrix builder is a registry position.
C10_ResolvedPositions ==
    request.op \in RoutingOps
    => /\ ResolvedPart(request.op, locations) = KnownPositions(request.pick_list, shelves)
       /\ \A k \in 1..Len(locations) : locations[k] \in RegistryPositions(shelves)
       /\ response.status \in {200, 400}

\* a pick list with an unknown identifier in front of a known one
C10_Witness ==
    /\ request.op \in RoutingOps
    /\ Len(request.pick_list) = 2
    /\ request.pick_list[1] \notin DOMAIN shelves
    /\ request.pick_list[2] \in DOMAIN shelves
    /\ ResolvedPart(request.op, locations) = <<shelves[request.pick_list[2]]>>
    /\ response.status = 200

---------------------------------------------------------------------------
(* C12 *)

\* C12: after any sequence of path queries, route queries and visualization
\* requests, every cell of layout and every entry of shelves has the value it
\* had at startup; the visualization overlay goes to a per-request copy.
C12_ConfigurationNeverMutated ==
    /\ \A r \in 0..(WarehouseRows - 1), c \in 0..(WarehouseCols - 1) :
          layout[r][c] = WarehouseLayout[r][c]
    /\ DOMAIN shelves = DOMAIN WarehouseShelves
    /\ \A sku \in DOMAIN WarehouseShelves : shelves[sku] = WarehouseShelves[sku]

\* a visualization that tagged a stop, a shelf and a path cell in its own
\* grid while the shared grid kept its value at each of these cells
C12_Witness ==
    /\ request.op = "visualize_route"
    /\ response.status = 200
    /\ \E r \in 0..(WarehouseRows - 1), c \in 0..(WarehouseCols - 1) :
          response.visual_grid[r][c] >= 3 /\ layout[r][c] = 0
    /\ \E r \in 0..(WarehouseRows - 1), c \in 0..(WarehouseCols - 1) :
          response.visual_grid[r][c] = 2 /\ layout[r][c] = 0
    /\ \E r \in 0..(WarehouseRows - 1), c \in 0..(WarehouseCols - 1) :
          response.visual_grid[r][c] = -1 /\ layout[r][c] = 0

---------------------------------------------------------------------------
(* C13 *)

\* the direction of the unit move from cell p to cell q, "none" when q is not
\* one of the four cells next to p
UnitMove(p, q) ==
    IF q = <<p[1] - 1, p[2]>> THEN "up"
    ELSE IF q = <<p[1] + 1, p[2]>> THEN "down"
    ELSE IF q = <<p[1], p[2] - 1>> THEN "left"
    ELSE IF q = <<p[1], p[2] + 1>> THEN "right"
    ELSE "none"

\* the literal paths of the segments between consecutive route points
SegmentPaths(route_points, lay) ==
    [k \in 1..(Len(route_points) - 1) |->
        a_star_pathfinding(route_points[k].position, route_points[k + 1].position, lay)]

\* the steps <<k, i>> of the segment paths (from entry i of path k to entry
\* i + 1) that leave the cell with the given key
StepsFrom(paths, key) ==
    {st \in UNION {{<<k, i>> : i \in 1..(Len(paths[k]) - 1)} : k \in 1..Len(paths)} :
        PointKey(paths[st[1]][st[2]]) = key}

StepMove(paths, st) == UnitMove(paths[st[1]][st[2]], paths[st[1]][st[2] + 1])

\* C13: in the response of /api/visualize-route every direction tag recorded
\* under the key of a cell is the direction of a unit move of some segment's
\* path from that cell to the next path cell, and every such move of every
\* segment that crosses the cell has its tag there.
C13_TagsAreUnitMoves ==
    (request.op = "visualize_route" /\ response.status = 200)
    => LET paths == SegmentPaths(response.route_points, layout)
       IN  \A key \in DOMAIN response.directions :
             LET tags == response.directions[key]
                 steps == StepsFrom(paths, key)
             IN  /\ \A t \in 1..Len(tags) :
                       \E st \in steps : StepMove(paths, st) = tags[t]
                 /\ \A st \in steps :
                       \E t \in 1..Len(tags) : tags[t] = StepMove(paths, st)

---------------------------------------------------------------------------
(* C14 *)

\* the cells of the segment paths
OnSomePath(paths) == UNION {{paths[k][i] : i \in 1..Len(paths[k])} : k \in 1..Len(paths)}

\* C14: in the visual grid of /api/visualize-route a cell is tagged 3 + k
\* exactly when it is the position of the route point with visit order k, a
\* registry shelf cell that is not a stop is tagged 2, a walkable non-shelf
\* cell on some segment path is tagged -1, and every other cell keeps its
\* layout value.
C14_VisualGridAgreesWithRoute ==
    (request.op = "visualize_route" /\ response.status = 200)
    => LET grid == response.visual_grid
           rp == response.route_points
           on_path == OnSomePath(SegmentPaths(rp, layout))
           stops == {rp[k].position : k \in 1..Len(rp)}
       IN  /\ DOMAIN grid = DOMAIN layout
           /\ \A r \in DOMAIN layout :
                 /\ DOMAIN grid[r] = DOMAIN layout[r]
                 /\ \A c \in DOMAIN layout[r] :
                       /\ \A k \in 1..Len(rp) :
                             (grid[r][c] = 3 + rp[k].order) <=> (rp[k].position = <<r, c>>)
                       /\ <<r, c>> \notin stops =>
                             grid[r][c] =
                                IF <<r, c>> \in RegistryPositions(shelves) THEN 2
                                ELSE IF layout[r][c] = 0 /\ <<r, c>> \in on_path THEN -1
                                ELSE layout[r][c]

---------------------------------------------------------------------------
(* C15 *)

\* the registry resolves the identifier to the position
ResolvesTo(sku, position, reg) == sku \in DOMAIN reg /\ reg[sku] = position

\* C15: in every route point of /api/visualize-route and every entry of
\* pick_list_with_locations of /api/solve-with-paths the reported identifier
\* resolves in the registry to the reported position, for every pick list,
\* also one with unknown identifiers.
C15_ReportedSkuResolvesToPosition ==
    /\ (request.op = "visualize_route" /\ response.status = 200)
       => \A k \in 1..Len(response.route_points) :
             ResolvesTo(response.route_points[k].sku,
                        response.route_points[k].position, shelves)
    /\ (request.op = "solve_with_paths" /\ response.status = 200)
       => \A k \in 1..Len(response.pick_list_with_locations) :
             ResolvesTo(response.pick_list_with_locations[k].sku,
                        response.pick_list_with_locations[k].location, shelves)

---------------------------------------------------------------------------
(* C16 *)

\* a call that has entered the while loop (its g_score holds the start)
InSearch == search.pc # "idle" /\ search.st.g_score # <<>>

\* the start cell has no came-from predecessor, and the g-score of a cell's
\* predecessor is strictly lower than the cell's own
ChainDescends ==
    InSearch
    => /\ search.start \notin DOMAIN search.st.came_from
       /\ \A cell \in DOMAIN search.st.came_from :
             /\ search.st.came_from[cell] \in DOMAIN search.st.g_score
             /\ search.st.g_score[search.st.came_from[cell]] < search.st.g_score[cell]

\* a call that returns the empty path has emptied its open set, and a call
\* that returns a path has followed came_from to its end
ReturnsAtLoopExit ==
    (InSearch /\ search.pc = "done")
    => IF search.st.path = <<>> THEN search.st.open_set = <<>> ELSE search.walk.done

\* one iteration of the while loop that relaxes the neighbours: the entries
\* it pushed lie behind the ones it kept (one entry was popped first); each
\* is for a cell seen for the first time or given a strictly lower g-score,
\* and carries f = g + h
PushedOnlyWhenBetter ==
    (search.pc = "loop" /\ search'.pc = "loop")
    => \A k \in Len(search.st.open_set)..Len(search'.st.open_set) :
          LET cell == search'.st.open_set[k][2]
          IN  /\ \/ cell \notin DOMAIN search.st.g_score
                 \/ search'.st.g_score[cell] < search.st.g_score[cell]
              /\ search'.st.open_set[k][1] =
                    search'.st.g_score[cell] + heuristic(cell, search.goal)

\* C16: a_star_pathfinding terminates on every grid and every input: a cell
\* is pushed only when first discovered or given a strictly lower g-score,
\* the start never gets a came-from predecessor and g-scores strictly
\* decrease along came_from, so every call that enters the while loop
\* returns, with the empty path once the open set is empty or with the path
\* once the goal is popped and came_from followed to the start.
C16_SearchTerminates ==
    /\ [](ChainDescends /\ ReturnsAtLoopExit)
    /\ [][PushedOnlyWhenBetter]_vars
    /\ (search.pc \in {"loop", "reconstruct"}) ~> (search.pc = "done")

\* a call that popped the goal while other cells were still queued and
\* followed came_from over at least three cells back to the start
C16_Witness ==
    /\ search.pc = "done"
    /\ search.walk.done
    /\ Len(search.walk.path) >= 3
    /\ search.st.open_set # <<>>
    /\ search.st.path[1] = search.start

---------------------------------------------------------------------------
(* C17 *)

\* C17: every non-empty path a_star_pathfinding returns for start # goal
\* begins with start and ends with goal, holds only in-bounds walkable cells,
\* moves by exactly one step in exactly one of row or column between
\* consecutive elements, and holds no cell twice.
C17_PathIsValidWalk ==
    (request.op = "get_path" /\ request.start # request.goal /\ response.path # <<>>)
    => LET path == response.path
       IN  /\ path[1] = request.start
           /\ path[Len(path)] = request.goal
           /\ \A k \in 1..Len(path) : Walkable(path[k], layout)
           /\ \A k \in 1..(Len(path) - 1) : Adjacent(path[k], path[k + 1])
           /\ \A i \in 1..Len(path), j \in 1..Len(path) : i # j => path[i] # path[j]

\* a path that goes round a blocked cell: it changes both row and column and
\* is longer than the Manhattan distance of its ends
C17_Witness ==
    /\ request.op = "get_path"
    /\ request.start # request.goal
    /\ Len(response.path) >= 4
    /\ response.path[1] = request.start
    /\ response.path[Len(response.path)] = request.goal
    /\ Len(response.path) - 1 > heuristic(request.start, request.goal)
    /\ \E k \in 1..(Len(response.path) - 1) : response.path[k][1] # response.path[k + 1][1]
    /\ \E k \in 1..(Len(response.path) - 1) : response.path[k][2] # response.path[k + 1][2]

====
